---- MODULE Spec2Model ----
(***************************************************************************)
(* Model of the image metadata reader: the six header decoders of          *)
(* src/lib/imageParser.ts, the dispatcher parseImageMetadata, and the POST *)
(* handler of src/app/api/analyze-images/route.ts that decodes every       *)
(* uploaded file of a request and answers with the array of records.       *)
(*                                                                         *)
(* A JavaScript number or undefined is a pair <<kind, n>>: <<"int", n>>,   *)
(* <<"NaN", 0>>, <<"Infinity", 0>>, <<"undefined", 0>>.  A string the code *)
(* builds from a number is a tuple (<<"Unknown", 99>>), every other label  *)
(* a one-element tuple.  A filename, an extension and a format tag are     *)
(* sequences of characters.                                                *)
(***************************************************************************)
EXTENDS Integers, Sequences, FiniteSets, TLC

\* ------------------------------------------------------------------ bounds

\* Most files in one request.
MaxFiles == 2
\* Most marker segments after the SOI marker of a generated JPEG buffer.
MaxSegments == 2
\* Most chunks after IHDR in a generated PNG buffer.
MaxChunks == 2
\* Most directory entries in the IFD of a generated TIFF buffer.
MaxEntries == 2

\* ------------------------------------------------------- JavaScript values

Num(n) == <<"int", n>>
NaN == <<"NaN", 0>>
Infinity == <<"Infinity", 0>>
Undefined == <<"undefined", 0>>

IsInt(x) == x[1] = "int"
IsNonNegInt(x) == x[1] = "int" /\ x[2] >= 0

\* a * b of two JavaScript values of which a is a number: undefined converts
\* to NaN, and NaN times anything is NaN.
JsMul(a, b) ==
  IF IsInt(a) /\ IsInt(b) THEN Num(a[2] * b[2]) ELSE NaN

\* Math.round(p / q) of an exact non-negative rational, q > 0: halves go up.
RoundDiv(p, q) == (2 * p + q) \div (2 * q)

\* Math.round(n * 0.0254): pixels per meter to dots per inch.
PerMeterToDpi(n) == RoundDiv(n * 254, 10000)

\* Math.round(n * 2.54): dots per centimeter to dots per inch.
PerCmToDpi(n) == RoundDiv(n * 254, 100)

\* Math.round(numerator / denominator) of two unsigned integers: x / 0 is
\* Infinity, 0 / 0 is NaN, and Math.round keeps both.
RoundRatio(n, dd) ==
  IF dd # 0 THEN Num(RoundDiv(n, dd))
  ELSE IF n = 0 THEN NaN ELSE Infinity

\* Math.round(x * 2.54) of a JavaScript number.
JsPerCmToDpi(x) == IF IsInt(x) THEN Num(PerCmToDpi(x[2])) ELSE x

\* -------------------------------------------------------------- characters

LowerChars ==
  <<"a", "b", "c", "d", "e", "f", "g", "h", "i", "j", "k", "l", "m",
    "n", "o", "p", "q", "r", "s", "t", "u", "v", "w", "x", "y", "z">>
UpperChars ==
  <<"A", "B", "C", "D", "E", "F", "G", "H", "I", "J", "K", "L", "M",
    "N", "O", "P", "Q", "R", "S", "T", "U", "V", "W", "X", "Y", "Z">>

CharIndex(s, c) == CHOOSE k \in 1..Len(s) : s[k] = c

ToLowerChar(c) ==
  IF \E k \in 1..Len(UpperChars) : UpperChars[k] = c
  THEN LowerChars[CharIndex(UpperChars, c)] ELSE c

ToUpperChar(c) ==
  IF \E k \in 1..Len(LowerChars) : LowerChars[k] = c
  THEN UpperChars[CharIndex(LowerChars, c)] ELSE c

ToLowerCase(s) == [k \in 1..Len(s) |-> ToLowerChar(s[k])]
ToUpperCase(s) == [k \in 1..Len(s) |-> ToUpperChar(s[k])]

\* s.split('.').pop(): what follows the last dot, the whole string without one.
LastDot(s) ==
  IF \E k \in 1..Len(s) : s[k] = "."
  THEN CHOOSE k \in 1..Len(s) : s[k] = "." /\ \A j \in (k + 1)..Len(s) : s[j] # "."
  ELSE 0

SplitPop(s) == SubSeq(s, LastDot(s) + 1, Len(s))

\* Extension that skips toLowerCase.
ExtensionKeepsCase(filename) == SplitPop(filename)

\* filename.toLowerCase().split('.').pop() || ''
Extension(filename) == SplitPop(ToLowerCase(filename))

\* ------------------------------------------------------------ Buffer reads

Min(a, b) == IF a <= b THEN a ELSE b

\* The checked reads (readUInt8, readUInt16LE, ...) throw a RangeError unless
\* 0 <= offset and offset + size <= buffer.length.
InRange(buf, off, size) == off >= 0 /\ off + size <= Len(buf)

Byte(buf, off) == buf[off + 1]

\* The values read.  The model checker's integers are 32 bits wide, so the
\* generated buffers keep every unsigned 32-bit field below 2^31.
ReadUInt8(buf, off) == Byte(buf, off)
ReadUInt16LE(buf, off) == Byte(buf, off) + 256 * Byte(buf, off + 1)
ReadUInt16BE(buf, off) == 256 * Byte(buf, off) + Byte(buf, off + 1)
ReadUInt32LE(buf, off) ==
  Byte(buf, off) + 256 * Byte(buf, off + 1) + 65536 * Byte(buf, off + 2)
    + 16777216 * Byte(buf, off + 3)
ReadUInt32BE(buf, off) ==
  16777216 * Byte(buf, off) + 65536 * Byte(buf, off + 1) + 256 * Byte(buf, off + 2)
    + Byte(buf, off + 3)
\* Two's complement: the top byte carries the sign.
ReadInt32LE(buf, off) ==
  Byte(buf, off) + 256 * Byte(buf, off + 1) + 65536 * Byte(buf, off + 2)
    + 16777216 * (IF Byte(buf, off + 3) >= 128 THEN Byte(buf, off + 3) - 256
                  ELSE Byte(buf, off + 3))

\* buffer[off]: unchecked, undefined at or past the end.
Index(buf, off) == IF off < Len(buf) THEN Num(Byte(buf, off)) ELSE Undefined

\* buffer.toString('ascii', start, end): the range is clipped to the buffer
\* and every byte loses its high bit.
ToAscii(buf, start, end) ==
  [k \in 1..(Min(end, Len(buf)) - Min(start, Len(buf))) |-> buf[Min(start, Len(buf)) + k] % 128]

\* buffer.subarray(start, end): clipped to the buffer.
Subarray(buf, start, end) == SubSeq(buf, Min(start, Len(buf)) + 1, Min(end, Len(buf)))

\* An unchecked read (buffer[i], toString, subarray) of [start, end) that
\* needs a byte the buffer does not hold.
Missing(buf, end) == end > Len(buf)

\* ---------------------------------------------------------------- records

\* The object literal every decoder returns (ImageMetadata without the
\* fields the decoders never set).
Metadata(filename, width, height, resolutionX, resolutionY, colorDepth, compression, format) ==
  [filename |-> filename, width |-> width, height |-> height,
   resolutionX |-> resolutionX, resolutionY |-> resolutionY,
   colorDepth |-> colorDepth, compression |-> compression, format |-> format]

\* ErrorRecord that leaves the resolution at the decoders' default.
ErrorRecordKeepsDefaults(filename, ext, message) ==
  [filename |-> filename, width |-> Num(0), height |-> Num(0),
   resolutionX |-> Num(72), resolutionY |-> Num(72), colorDepth |-> Num(0),
   compression |-> <<"N/A">>, format |-> ToUpperCase(ext), error |-> message]

\* The object literal of parseImageMetadata's catch block.
ErrorRecord(filename, ext, message) ==
  [filename |-> filename, width |-> Num(0), height |-> Num(0),
   resolutionX |-> Num(0), resolutionY |-> Num(0), colorDepth |-> Num(0),
   compression |-> <<"N/A">>, format |-> ToUpperCase(ext), error |-> message]

\* The object literal of the POST handler's per-file catch block.
RouteErrorRecord(filename, message) ==
  [filename |-> filename, width |-> Num(0), height |-> Num(0),
   resolutionX |-> Num(0), resolutionY |-> Num(0), colorDepth |-> Num(0),
   compression |-> <<"N/A">>, compressed |-> <<"N/A">>, format |-> <<"U", "n", "k", "n", "o", "w", "n">>,
   error |-> message]

NoRecord == [pending |-> TRUE]

\* The message of the RangeError a checked read throws.
OutOfRange == <<"out of range">>

\* ----------------------------------------------------------- decode state

\* The locals of one parseImageMetadata call and of the decoder it runs.
\* iters, oob, badLen and sofs are history: the loop iterations begun, whether
\* an unchecked read needed a byte past the end, whether a JPEG segment stated
\* a length below 2, and the frame headers the JPEG scan has read.
NoCall ==
  [pc |-> "idle", ext |-> <<>>, rec |-> NoRecord, err |-> <<>>,
   offset |-> 0, i |-> 0, numEntries |-> 0, ifdOffset |-> 0, littleEndian |-> FALSE,
   width |-> Num(0), height |-> Num(0), resolutionX |-> Num(72), resolutionY |-> Num(72),
   colorDepth |-> Num(0), bitsPerSample |-> 1, samplesPerPixel |-> 1,
   compression |-> 1, resolutionUnit |-> 2,
   iters |-> 0, oob |-> FALSE, badLen |-> FALSE, sofs |-> <<>>]

\* parseImageMetadata, line 360: the extension, before the try block.
BeginParse(filename) == [NoCall EXCEPT !.pc = "dispatch", !.ext = Extension(filename)]

Throw(d, message) == [d EXCEPT !.pc = "thrown", !.err = message]
Return(d, rec) == [d EXCEPT !.pc = "returned", !.rec = rec]
NoteMissing(d, missing) == [d EXCEPT !.oob = @ \/ missing]

AllInRange(buf, reads) == \A r \in reads : InRange(buf, r[1], r[2])

\* The switch of parseImageMetadata.
DecoderOf(ext) ==
  CASE ext = <<"b", "m", "p">> -> "bmp"
    [] ext = <<"p", "n", "g">> -> "png"
    [] ext = <<"j", "p", "g">> -> "jpeg"
    [] ext = <<"j", "p", "e", "g">> -> "jpeg"
    [] ext = <<"g", "i", "f">> -> "gif"
    [] ext = <<"t", "i", "f">> -> "tiff"
    [] ext = <<"t", "i", "f", "f">> -> "tiff"
    [] ext = <<"p", "c", "x">> -> "pcx"
    [] OTHER -> "none"

Dispatch(d) ==
  IF DecoderOf(d.ext) = "none" THEN Throw(d, <<"Unsupported format", d.ext>>)
  ELSE [d EXCEPT !.pc = DecoderOf(d.ext)]

\* -------------------------------------------------------------------- BMP

BmpCompression(code) ==
  CASE code = 0 -> <<"None (BI_RGB)">>
    [] code = 1 -> <<"RLE 8-bit">>
    [] code = 2 -> <<"RLE 4-bit">>
    [] code = 3 -> <<"Bitfields">>
    [] code = 4 -> <<"JPEG">>
    [] code = 5 -> <<"PNG">>
    [] OTHER -> <<"Unknown", code>>

Abs(n) == IF n < 0 THEN 0 - n ELSE n

BmpWidth(buf) == ReadInt32LE(buf, 18)
BmpHeight(buf) == Abs(ReadInt32LE(buf, 22))

BmpResolution(buf, off) ==
  IF ReadUInt32LE(buf, 14) >= 40 /\ ReadInt32LE(buf, off) > 0
  THEN PerMeterToDpi(ReadInt32LE(buf, off)) ELSE 72

ParseBMP(d, buf, filename) ==
  LET d0 == NoteMissing(d, Missing(buf, 2)) IN
  IF ToAscii(buf, 0, 2) # <<66, 77>> THEN Throw(d0, <<"Not a valid BMP file">>)
  ELSE IF ~AllInRange(buf, {<<14, 4>>, <<18, 4>>, <<22, 4>>, <<28, 2>>, <<30, 4>>})
  THEN Throw(d0, OutOfRange)
  ELSE IF ReadUInt32LE(buf, 14) >= 40 /\ ~AllInRange(buf, {<<38, 4>>, <<42, 4>>})
  THEN Throw(d0, OutOfRange)
  ELSE Return(d0, Metadata(filename, Num(BmpWidth(buf)), Num(BmpHeight(buf)),
                Num(BmpResolution(buf, 38)), Num(BmpResolution(buf, 42)),
                Num(ReadUInt16LE(buf, 28)), BmpCompression(ReadUInt32LE(buf, 30)),
                <<"B", "M", "P">>))

\* -------------------------------------------------------------------- GIF

GifColorDepth(packed) ==
  IF packed \div 128 # 0 THEN (packed % 8) + 1 ELSE ((packed % 128) \div 16) + 1

ParseGIF(d, buf, filename) ==
  LET d0 == NoteMissing(d, Missing(buf, 6)) IN
  IF ToAscii(buf, 0, 6) # <<71, 73, 70, 56, 55, 97>>
     /\ ToAscii(buf, 0, 6) # <<71, 73, 70, 56, 57, 97>>
  THEN Throw(d0, <<"Not a valid GIF file">>)
  ELSE IF ~AllInRange(buf, {<<6, 2>>, <<8, 2>>, <<10, 1>>}) THEN Throw(d0, OutOfRange)
  ELSE Return(d0, Metadata(filename, Num(ReadUInt16LE(buf, 6)), Num(ReadUInt16LE(buf, 8)),
                Num(72), Num(72), Num(GifColorDepth(ReadUInt8(buf, 10))),
                <<"LZW">>, <<"G", "I", "F">>))

\* -------------------------------------------------------------------- PCX

PcxWidth(buf) == ReadUInt16LE(buf, 8) - ReadUInt16LE(buf, 4) + 1
PcxHeight(buf) == ReadUInt16LE(buf, 10) - ReadUInt16LE(buf, 6) + 1

\* hDpi || 72
OrDefault(dpi) == IF dpi = 0 THEN 72 ELSE dpi

ParsePCX(d, buf, filename) ==
  IF ~InRange(buf, 0, 1) THEN Throw(d, OutOfRange)
  ELSE IF ReadUInt8(buf, 0) # 10 THEN Throw(d, <<"Not a valid PCX file">>)
  ELSE IF ~AllInRange(buf, {<<1, 1>>, <<2, 1>>, <<3, 1>>, <<4, 2>>, <<6, 2>>, <<8, 2>>,
                            <<10, 2>>, <<12, 2>>, <<14, 2>>, <<65, 1>>})
  THEN Throw(d, OutOfRange)
  ELSE Return(d, Metadata(filename, Num(PcxWidth(buf)), Num(PcxHeight(buf)),
                Num(OrDefault(ReadUInt16LE(buf, 12))), Num(OrDefault(ReadUInt16LE(buf, 14))),
                Num(ReadUInt8(buf, 3) * ReadUInt8(buf, 65)),
                IF ReadUInt8(buf, 2) = 1 THEN <<"RLE">> ELSE <<"None">>,
                <<"P", "C", "X">>))

\* -------------------------------------------------------------------- PNG

PngSignature == <<137, 80, 78, 71, 13, 10, 26, 10>>

PngColorDepth(bitDepth, colorType) ==
  CASE colorType = 2 -> bitDepth * 3
    [] colorType = 4 -> bitDepth * 2
    [] colorType = 6 -> bitDepth * 4
    [] OTHER -> bitDepth

PngRecord(d, buf, filename) ==
  Metadata(filename, d.width, d.height, d.resolutionX, d.resolutionY, d.colorDepth,
           IF ReadUInt8(buf, 26) = 0 THEN <<"Deflate">> ELSE <<"Unknown">>,
           <<"P", "N", "G">>)

\* Lines 52-75: the signature, the IHDR fields, and the start of the scan.
ParsePNG(d, buf, filename) ==
  LET d0 == NoteMissing(d, Missing(buf, 8)) IN
  IF Subarray(buf, 0, 8) # PngSignature THEN Throw(d0, <<"Not a valid PNG file">>)
  ELSE IF ~AllInRange(buf, {<<16, 4>>, <<20, 4>>, <<24, 1>>, <<25, 1>>, <<26, 1>>})
  THEN Throw(d0, OutOfRange)
  ELSE [d0 EXCEPT !.pc = "png_scan",
                  !.width = Num(ReadUInt32BE(buf, 16)),
                  !.height = Num(ReadUInt32BE(buf, 20)),
                  !.colorDepth = Num(PngColorDepth(ReadUInt8(buf, 24), ReadUInt8(buf, 25))),
                  !.offset = 8]

\* offset += chunkLength + 12
PngAdvance(offset, chunkLength) == offset + chunkLength + 12

\* Lines 76-108: one test of the loop condition, with the iteration or the
\* return that follows it.
PngScan(d, buf, filename) ==
  IF ~(d.offset < Len(buf) - 12) THEN Return(d, PngRecord(d, buf, filename))
  ELSE
    LET d0 == [d EXCEPT !.iters = @ + 1] IN
    IF ~InRange(buf, d.offset, 4) THEN Throw(d0, OutOfRange)
    ELSE IF ToAscii(buf, d.offset + 4, d.offset + 8) = <<112, 72, 89, 115>>
    THEN
      IF ~AllInRange(buf, {<<d.offset + 8, 4>>, <<d.offset + 12, 4>>, <<d.offset + 16, 1>>})
      THEN Throw(d0, OutOfRange)
      ELSE
        LET d1 == IF ReadUInt8(buf, d.offset + 16) = 1
                  THEN [d0 EXCEPT
                          !.resolutionX = Num(PerMeterToDpi(ReadUInt32BE(buf, d.offset + 8))),
                          !.resolutionY = Num(PerMeterToDpi(ReadUInt32BE(buf, d.offset + 12)))]
                  ELSE d0
        IN Return(d1, PngRecord(d1, buf, filename))
    ELSE [NoteMissing(d0, Missing(buf, d.offset + 8))
            EXCEPT !.offset = PngAdvance(d.offset, ReadUInt32BE(buf, d.offset))]

\* ------------------------------------------------------------------- JPEG

JpegRecord(d, filename) ==
  Metadata(filename, d.width, d.height, d.resolutionX, d.resolutionY, d.colorDepth,
           <<"JPEG">>, <<"J", "P", "E", "G">>)

\* ParseJPEG that tests the first byte of the SOI marker only.
ParseJPEGFirstByteOnly(d, buf, filename) ==
  IF Index(buf, 0) # Num(255) THEN Throw(d, <<"Not a valid JPEG file">>)
  ELSE [d EXCEPT !.pc = "jpeg_scan", !.width = Num(0), !.height = Num(0),
                 !.colorDepth = Num(24), !.offset = 2]

\* Lines 113-124: the SOI marker, the defaults, and the start of the scan.
ParseJPEG(d, buf, filename) ==
  LET d0 == NoteMissing(d, Missing(buf, 2)) IN
  IF Index(buf, 0) # Num(255) \/ Index(buf, 1) # Num(216)
  THEN Throw(d0, <<"Not a valid JPEG file">>)
  ELSE [d0 EXCEPT !.pc = "jpeg_scan", !.width = Num(0), !.height = Num(0),
                  !.colorDepth = Num(24), !.offset = 2]

\* marker >= 0xC0 && marker <= 0xCF && marker !== 0xC4 && 0xC8 && 0xCC
IsSOF(marker) ==
  IsInt(marker) /\ marker[2] >= 192 /\ marker[2] <= 207 /\ marker[2] \notin {196, 200, 204}

\* JpegSof that keeps the first frame header it has read.
JpegSofKeepsFirst(d, buf) ==
  LET off == d.offset IN
  IF ~AllInRange(buf, {<<off + 5, 2>>, <<off + 7, 2>>}) THEN Throw(d, OutOfRange)
  ELSE
    LET frame == [height |-> Num(ReadUInt16BE(buf, off + 5)),
                  width |-> Num(ReadUInt16BE(buf, off + 7)),
                  colorDepth |-> JsMul(Index(buf, off + 4), Index(buf, off + 9))]
    IN IF d.sofs # <<>> THEN [d EXCEPT !.sofs = Append(@, frame)]
       ELSE [d EXCEPT !.height = frame.height, !.width = frame.width,
                      !.colorDepth = frame.colorDepth, !.sofs = Append(@, frame)]

\* Lines 133-137: the frame header; every SOF segment assigns the locals.
JpegSof(d, buf) ==
  LET off == d.offset
      d0 == NoteMissing(d, Missing(buf, off + 5))
  IN
  IF ~AllInRange(buf, {<<off + 5, 2>>, <<off + 7, 2>>}) THEN Throw(d0, OutOfRange)
  ELSE
    LET depth == JsMul(Index(buf, off + 4), Index(buf, off + 9)) IN
    [NoteMissing(d0, Missing(buf, off + 10))
       EXCEPT !.height = Num(ReadUInt16BE(buf, off + 5)),
              !.width = Num(ReadUInt16BE(buf, off + 7)),
              !.colorDepth = depth,
              !.sofs = Append(@, [height |-> Num(ReadUInt16BE(buf, off + 5)),
                                  width |-> Num(ReadUInt16BE(buf, off + 7)),
                                  colorDepth |-> depth])]

\* Lines 142-155: the JFIF APP0 segment.
JpegApp0(d, buf) ==
  LET off == d.offset
      d0 == NoteMissing(d, Missing(buf, off + 9))
  IN
  IF ToAscii(buf, off + 4, off + 9) # <<74, 70, 73, 70, 0>> THEN d0
  ELSE
    LET d1 == NoteMissing(d0, Missing(buf, off + 12)) IN
    IF ~AllInRange(buf, {<<off + 12, 2>>, <<off + 14, 2>>}) THEN Throw(d1, OutOfRange)
    ELSE
      CASE Index(buf, off + 11) = Num(1) ->
             [d1 EXCEPT !.resolutionX = Num(ReadUInt16BE(buf, off + 12)),
                        !.resolutionY = Num(ReadUInt16BE(buf, off + 14))]
        [] Index(buf, off + 11) = Num(2) ->
             [d1 EXCEPT !.resolutionX = Num(PerCmToDpi(ReadUInt16BE(buf, off + 12))),
                        !.resolutionY = Num(PerCmToDpi(ReadUInt16BE(buf, off + 14)))]
        [] OTHER -> d1

\* JpegAdvance that takes the stated length to cover the marker too.
JpegAdvanceByLength(offset, segmentLength) == offset + segmentLength

\* offset += segmentLength + 2
JpegAdvance(offset, segmentLength) == offset + segmentLength + 2

\* Lines 125-170: one test of the loop condition, with the iteration, the
\* break or the return that follows it.
JpegScan(d, buf, filename) ==
  IF ~(d.offset < Len(buf)) THEN Return(d, JpegRecord(d, filename))
  ELSE
    LET off == d.offset
        d0 == [d EXCEPT !.iters = @ + 1]
    IN
    IF Index(buf, off) # Num(255) THEN Return(d0, JpegRecord(d0, filename))
    ELSE
      LET marker == Index(buf, off + 1)
          d1 == NoteMissing(d0, Missing(buf, off + 2))
      IN
      IF ~InRange(buf, off + 2, 2) THEN Throw(d1, OutOfRange)
      ELSE
        LET segmentLength == ReadUInt16BE(buf, off + 2)
            d2 == [d1 EXCEPT !.badLen = @ \/ segmentLength < 2]
            d3 == IF IsSOF(marker) THEN JpegSof(d2, buf) ELSE d2
            d4 == IF d3.pc # "thrown" /\ marker = Num(224) THEN JpegApp0(d3, buf) ELSE d3
        IN IF d4.pc = "thrown" THEN d4
           ELSE [d4 EXCEPT !.offset = JpegAdvance(off, segmentLength)]

\* ------------------------------------------------------------------- TIFF

\* The readUInt16 and readUInt32 closures: the byte order of the header.
TiffUInt16(le, buf, off) == IF le THEN ReadUInt16LE(buf, off) ELSE ReadUInt16BE(buf, off)
TiffUInt32(le, buf, off) == IF le THEN ReadUInt32LE(buf, off) ELSE ReadUInt32BE(buf, off)

TiffCompression(code) ==
  CASE code = 1 -> <<"None">>
    [] code = 2 -> <<"CCITT Group 3">>
    [] code = 3 -> <<"CCITT Group 4">>
    [] code = 4 -> <<"LZW">>
    [] code = 5 -> <<"JPEG (old)">>
    [] code = 6 -> <<"JPEG">>
    [] code = 7 -> <<"JPEG">>
    [] code = 8 -> <<"Deflate">>
    [] code = 32773 -> <<"PackBits">>
    [] OTHER -> <<"Unknown", code>>

\* Lines 206-235: the byte order, the magic number, the IFD offset and the
\* entry count.
ParseTIFF(d, buf, filename) ==
  LET d0 == NoteMissing(d, Missing(buf, 2))
      le == ToAscii(buf, 0, 2) = <<73, 73>>
      be == ToAscii(buf, 0, 2) = <<77, 77>>
  IN
  IF ~le /\ ~be THEN Throw(d0, <<"Not a valid TIFF file">>)
  ELSE IF ~InRange(buf, 2, 2) THEN Throw(d0, OutOfRange)
  ELSE IF TiffUInt16(le, buf, 2) # 42 THEN Throw(d0, <<"Not a valid TIFF file">>)
  ELSE IF ~InRange(buf, 4, 4) THEN Throw(d0, OutOfRange)
  ELSE IF ~InRange(buf, TiffUInt32(le, buf, 4), 2) THEN Throw(d0, OutOfRange)
  ELSE [d0 EXCEPT !.pc = "tiff_ifd", !.littleEndian = le,
                  !.ifdOffset = TiffUInt32(le, buf, 4),
                  !.numEntries = TiffUInt16(le, buf, TiffUInt32(le, buf, 4)),
                  !.i = 0]

\* TiffRational that converts at once when the unit read so far is 3.
TiffRationalConvertsAtEntry(d, buf, valueOffset) ==
  LET r == RoundRatio(
             TiffUInt32(d.littleEndian, buf, TiffUInt32(d.littleEndian, buf, valueOffset)),
             TiffUInt32(d.littleEndian, buf, TiffUInt32(d.littleEndian, buf, valueOffset) + 4))
  IN IF d.resolutionUnit = 3 THEN JsPerCmToDpi(r) ELSE r

\* Lines 262-267 and 270-275: the rational an entry's value points at.
TiffRational(d, buf, valueOffset) ==
  RoundRatio(TiffUInt32(d.littleEndian, buf, TiffUInt32(d.littleEndian, buf, valueOffset)),
             TiffUInt32(d.littleEndian, buf, TiffUInt32(d.littleEndian, buf, valueOffset) + 4))

RationalInRange(d, buf, valueOffset) ==
  /\ InRange(buf, valueOffset, 4)
  /\ InRange(buf, TiffUInt32(d.littleEndian, buf, valueOffset), 4)
  /\ InRange(buf, TiffUInt32(d.littleEndian, buf, valueOffset) + 4, 4)

\* Lines 239-280: the body of the loop for the entry at entryOffset.
TiffEntry(d, buf, entryOffset) ==
  LET le == d.littleEndian
      valueOffset == entryOffset + 8
  IN
  IF ~AllInRange(buf, {<<entryOffset, 2>>, <<entryOffset + 2, 2>>, <<entryOffset + 4, 4>>})
  THEN Throw(d, OutOfRange)
  ELSE
    LET tag == TiffUInt16(le, buf, entryOffset) IN
    CASE tag \in {256, 257} ->
           IF ~InRange(buf, valueOffset, 4) THEN Throw(d, OutOfRange)
           ELSE IF tag = 256
                THEN [d EXCEPT !.width = Num(TiffUInt32(le, buf, valueOffset))]
                ELSE [d EXCEPT !.height = Num(TiffUInt32(le, buf, valueOffset))]
      [] tag \in {258, 259, 277, 296} ->
           IF ~InRange(buf, valueOffset, 2) THEN Throw(d, OutOfRange)
           ELSE (CASE tag = 258 -> [d EXCEPT !.bitsPerSample = TiffUInt16(le, buf, valueOffset)]
                   [] tag = 259 -> [d EXCEPT !.compression = TiffUInt16(le, buf, valueOffset)]
                   [] tag = 277 -> [d EXCEPT !.samplesPerPixel = TiffUInt16(le, buf, valueOffset)]
                   [] tag = 296 -> [d EXCEPT !.resolutionUnit = TiffUInt16(le, buf, valueOffset)])
      [] tag \in {282, 283} ->
           IF ~RationalInRange(d, buf, valueOffset) THEN Throw(d, OutOfRange)
           ELSE IF tag = 282
                THEN [d EXCEPT !.resolutionX = TiffRational(d, buf, valueOffset)]
                ELSE [d EXCEPT !.resolutionY = TiffRational(d, buf, valueOffset)]
      [] OTHER -> d

\* Lines 284-287: centimeters to inches, after the loop.
TiffToDpi(d) ==
  IF d.resolutionUnit = 3
  THEN [d EXCEPT !.resolutionX = JsPerCmToDpi(d.resolutionX),
                 !.resolutionY = JsPerCmToDpi(d.resolutionY)]
  ELSE d

TiffRecord(d, filename) ==
  Metadata(filename, d.width, d.height, d.resolutionX, d.resolutionY,
           Num(d.bitsPerSample * d.samplesPerPixel), TiffCompression(d.compression),
           <<"T", "I", "F", "F">>)

\* i < numEntries
TiffMore(i, numEntries) == i < numEntries

\* Lines 238-312: one test of the loop condition, with the iteration or the
\* conversion and return that follow it.
TiffIfd(d, buf, filename) ==
  IF ~TiffMore(d.i, d.numEntries)
  THEN Return(TiffToDpi(d), TiffRecord(TiffToDpi(d), filename))
  ELSE
    LET d0 == TiffEntry([d EXCEPT !.iters = @ + 1], buf, d.ifdOffset + 2 + d.i * 12) IN
    IF d0.pc = "thrown" THEN d0 ELSE [d0 EXCEPT !.i = @ + 1]

\* ------------------------------------------------------ parseImageMetadata

\* Settle with a catch block that handles the decoders' own failures only:
\* a RangeError of a checked read escapes the call.
SettleRethrowsRangeError(d, filename) ==
  CASE d.pc = "returned" -> [d EXCEPT !.pc = "resolved"]
    [] d.pc = "thrown" /\ d.err = OutOfRange -> [d EXCEPT !.pc = "rejected"]
    [] d.pc = "thrown" /\ d.err # OutOfRange ->
         [d EXCEPT !.pc = "resolved", !.rec = ErrorRecord(filename, d.ext, d.err)]

\* The end of the call: a returned record resolves the promise; the catch
\* block turns whatever the try block threw into the error record.
Settle(d, filename) ==
  CASE d.pc = "returned" -> [d EXCEPT !.pc = "resolved"]
    [] d.pc = "thrown" ->
         [d EXCEPT !.pc = "resolved", !.rec = ErrorRecord(filename, d.ext, d.err)]

\* One step of the call on (buf, filename) from the locals d.
Step(d, buf, filename) ==
  CASE d.pc = "dispatch" -> Dispatch(d)
    [] d.pc = "bmp" -> ParseBMP(d, buf, filename)
    [] d.pc = "png" -> ParsePNG(d, buf, filename)
    [] d.pc = "png_scan" -> PngScan(d, buf, filename)
    [] d.pc = "jpeg" -> ParseJPEG(d, buf, filename)
    [] d.pc = "jpeg_scan" -> JpegScan(d, buf, filename)
    [] d.pc = "gif" -> ParseGIF(d, buf, filename)
    [] d.pc = "tiff" -> ParseTIFF(d, buf, filename)
    [] d.pc = "tiff_ifd" -> TiffIfd(d, buf, filename)
    [] d.pc = "pcx" -> ParsePCX(d, buf, filename)
    [] d.pc \in {"returned", "thrown"} -> Settle(d, filename)

RECURSIVE RunFrom(_, _, _)
RunFrom(d, buf, filename) ==
  IF d.pc \in {"resolved", "rejected"} THEN d
  ELSE RunFrom(Step(d, buf, filename), buf, filename)

\* The whole call, as the caller sees it.
ParseImageMetadata(buf, filename) == RunFrom(BeginParse(filename), buf, filename)

\* ------------------------------------------------------------ the inputs

Zeros(n) == [k \in 1..n |-> 0]
U16LE(n) == <<n % 256, n \div 256>>
U16BE(n) == <<n \div 256, n % 256>>
U32LE(n) ==
  <<n % 256, (n \div 256) % 256, (n \div 65536) % 256, (n \div 16777216) % 256>>
U32BE(n) ==
  <<(n \div 16777216) % 256, (n \div 65536) % 256, (n \div 256) % 256, n % 256>>
\* Two's complement of a negative n: \div rounds down and % is never negative.
I32LE(n) == U32LE(n)

SeqsUpTo(S, n) == UNION {[1..k -> S] : k \in 0..n}

RECURSIVE Flatten(_)
Flatten(ss) == IF ss = <<>> THEN <<>> ELSE Head(ss) \o Flatten(Tail(ss))

\* An uploaded file: its name, its bytes, and what it was built as (kind:
\* the format of the bytes; noRes: the bytes carry no resolution value).
File(name, bytes, kind, noRes) ==
  [name |-> name, bytes |-> bytes, kind |-> kind, noRes |-> noRes]

\* The file f cut to its first k bytes.
Truncated(f, k) == [f EXCEPT !.bytes = SubSeq(f.bytes, 1, k)]

\* BMP: file header, BITMAPINFOHEADER fields up to the resolution, 54 bytes.
BmpBytes(dib, w, h, method, xPels, yPels) ==
  <<66, 77>> \o Zeros(12) \o U32LE(dib) \o I32LE(w) \o I32LE(h) \o U16LE(1) \o U16LE(24)
    \o U32LE(method) \o Zeros(4) \o I32LE(xPels) \o I32LE(yPels) \o Zeros(8)

BmpFile(dib, size, method, pels) ==
  File(<<"a", ".", "b", "m", "p">>,
       BmpBytes(dib, size[1], size[2], method, pels[1], pels[2]),
       "BMP", dib < 40 \/ (pels[1] <= 0 /\ pels[2] <= 0))

BmpFiles ==
  {BmpFile(dib, size, method, pels) :
     dib \in {12, 40}, size \in {<<3, 2>>, <<-3, -2>>}, method \in {0, 99},
     pels \in {<<0, 0>>, <<3780, 3780>>, <<-1, 3780>>}}

\* GIF: signature and logical screen descriptor, 13 bytes.
GifFile(version, packed) ==
  File(<<"a", ".", "g", "i", "f">>,
       <<71, 73, 70, 56, version, 97>> \o U16LE(320) \o U16LE(200) \o <<packed, 0, 0>>,
       "GIF", TRUE)

GifFiles == {GifFile(version, packed) : version \in {55, 57}, packed \in {247, 112, 145}}

\* PCX: the 128-byte header.
PcxFile(box, dpi, encoding) ==
  File(<<"a", ".", "p", "c", "x">>,
       <<10, 5, encoding, 8>> \o U16LE(box[1]) \o U16LE(box[2]) \o U16LE(box[3])
         \o U16LE(box[4]) \o U16LE(dpi[1]) \o U16LE(dpi[2]) \o Zeros(48) \o <<0, 3>>
         \o Zeros(62),
       "PCX", dpi = <<0, 0>>)

PcxFiles ==
  {PcxFile(box, dpi, encoding) :
     box \in {<<0, 0, 99, 49>>, <<5, 5, 0, 0>>},
     dpi \in {<<0, 0>>, <<300, 300>>, <<300, 0>>}, encoding \in {0, 1}}

\* PNG: signature, IHDR, then the chunks named by a list of kinds.
PngChunk(kind) ==
  CASE kind = "pHYs1" ->
         U32BE(9) \o <<112, 72, 89, 115>> \o U32BE(3780) \o U32BE(3780) \o <<1>> \o Zeros(4)
    [] kind = "pHYs0" ->
         U32BE(9) \o <<112, 72, 89, 115>> \o U32BE(1) \o U32BE(1) \o <<0>> \o Zeros(4)
    [] kind = "gAMA" -> U32BE(4) \o <<103, 65, 77, 65>> \o U32BE(45455) \o Zeros(4)
    [] kind = "IEND" -> U32BE(0) \o <<73, 69, 78, 68>> \o Zeros(4)
    [] kind = "IDAT" -> U32BE(1000) \o <<73, 68, 65, 84>> \o <<1, 2>>

PngKinds == {"pHYs1", "pHYs0", "gAMA", "IEND", "IDAT"}

PngFile(colorType, kinds) ==
  File(<<"a", ".", "p", "n", "g">>,
       PngSignature \o U32BE(13) \o <<73, 72, 68, 82>> \o U32BE(640) \o U32BE(480)
         \o <<8, colorType, 0, 0, 0>> \o Zeros(4)
         \o Flatten([k \in 1..Len(kinds) |-> PngChunk(kinds[k])]),
       "PNG", \A k \in 1..Len(kinds) : kinds[k] # "pHYs1")

PngFiles ==
  {PngFile(colorType, kinds) : colorType \in {0, 6}, kinds \in SeqsUpTo(PngKinds, MaxChunks)}

\* JPEG: SOI, then the marker segments named by a list of kinds.
JpegSegment(kind) ==
  CASE kind = "JFIF1" ->
         <<255, 224, 0, 16, 74, 70, 73, 70, 0, 1, 2, 1>> \o U16BE(96) \o U16BE(96) \o <<0, 0>>
    [] kind = "JFIF2" ->
         <<255, 224, 0, 16, 74, 70, 73, 70, 0, 1, 2, 2>> \o U16BE(38) \o U16BE(38) \o <<0, 0>>
    [] kind = "JFIF0" ->
         <<255, 224, 0, 16, 74, 70, 73, 70, 0, 1, 2, 0>> \o U16BE(1) \o U16BE(1) \o <<0, 0>>
    [] kind = "SOF0" ->
         <<255, 192, 0, 17, 8>> \o U16BE(16) \o U16BE(32) \o <<3>> \o Zeros(9)
    [] kind = "SOF2" ->
         <<255, 194, 0, 11, 12>> \o U16BE(48) \o U16BE(64) \o <<1>> \o Zeros(3)
    [] kind = "DHT" -> <<255, 196, 0, 4, 0, 0>>
    [] kind = "ZERO" -> <<255, 225, 0, 0>>

JpegKinds == {"JFIF1", "JFIF2", "JFIF0", "SOF0", "SOF2", "DHT", "ZERO"}

JpegFile(kinds) ==
  File(<<"a", ".", "j", "p", "g">>,
       <<255, 216>> \o Flatten([k \in 1..Len(kinds) |-> JpegSegment(kinds[k])]),
       "JPEG", \A k \in 1..Len(kinds) : kinds[k] \notin {"JFIF1", "JFIF2"})

JpegFiles == {JpegFile(kinds) : kinds \in SeqsUpTo(JpegKinds, MaxSegments)}

\* TIFF: header, one IFD at offset 8 with the entries named by a list of
\* kinds, then three rationals: 100/1, 7/0 and 0/0.
TiffU16(le, n) == IF le THEN U16LE(n) ELSE U16BE(n)
TiffU32(le, n) == IF le THEN U32LE(n) ELSE U32BE(n)

TiffEntryBytes(le, kind, rationals) ==
  CASE kind = "W" -> TiffU16(le, 256) \o TiffU16(le, 4) \o TiffU32(le, 1) \o TiffU32(le, 640)
    [] kind = "XA" ->
         TiffU16(le, 282) \o TiffU16(le, 5) \o TiffU32(le, 1) \o TiffU32(le, rationals)
    [] kind = "XI" ->
         TiffU16(le, 282) \o TiffU16(le, 5) \o TiffU32(le, 1) \o TiffU32(le, rationals + 8)
    [] kind = "XH" ->
         TiffU16(le, 282) \o TiffU16(le, 5) \o TiffU32(le, 1) \o TiffU32(le, rationals + 24)
    [] kind = "YA" ->
         TiffU16(le, 283) \o TiffU16(le, 5) \o TiffU32(le, 1) \o TiffU32(le, rationals)
    [] kind = "YN" ->
         TiffU16(le, 283) \o TiffU16(le, 5) \o TiffU32(le, 1) \o TiffU32(le, rationals + 16)
    [] kind = "U3" ->
         TiffU16(le, 296) \o TiffU16(le, 3) \o TiffU32(le, 1) \o TiffU16(le, 3) \o Zeros(2)
    [] kind = "U2" ->
         TiffU16(le, 296) \o TiffU16(le, 3) \o TiffU32(le, 1) \o TiffU16(le, 2) \o Zeros(2)

TiffKinds == {"W", "XA", "XI", "XH", "YA", "YN", "U3", "U2"}

TiffFile(le, kinds) ==
  File(<<"a", ".", "t", "i", "f">>,
       (IF le THEN <<73, 73>> ELSE <<77, 77>>) \o TiffU16(le, 42) \o TiffU32(le, 8)
         \o TiffU16(le, Len(kinds))
         \o Flatten([k \in 1..Len(kinds) |->
                       TiffEntryBytes(le, kinds[k], 14 + 12 * Len(kinds))])
         \o Zeros(4)
         \o TiffU32(le, 100) \o TiffU32(le, 1) \o TiffU32(le, 7) \o Zeros(4) \o Zeros(8)
         \o TiffU32(le, 3) \o TiffU32(le, 2),
       "TIFF", \A k \in 1..Len(kinds) : kinds[k] \notin {"XA", "XI", "XH", "YA", "YN"})

TiffFiles ==
  {TiffFile(le, kinds) : le \in BOOLEAN, kinds \in SeqsUpTo(TiffKinds, MaxEntries)}

\* One well-formed file of each format.
Samples ==
  {BmpFile(40, <<3, 2>>, 0, <<3780, 3780>>), GifFile(57, 247),
   PcxFile(<<0, 0, 99, 49>>, <<300, 300>>, 1), PngFile(6, <<"pHYs1", "IEND">>),
   JpegFile(<<"JFIF1", "SOF0">>), TiffFile(FALSE, <<"XA", "U3">>)}

\* Names whose extension is an alias, in upper case, missing, empty, or one
\* the dispatcher does not know.
OtherNames ==
  {<<"a", ".", "j", "p", "e", "g">>, <<"a", ".", "t", "i", "f", "f">>,
   <<"A", ".", "P", "N", "G">>, <<"a", ".", "b", ".", "G", "i", "f">>,
   <<"a", ".", "w", "e", "b", "p">>, <<"b", "m", "p">>, <<"a", ".">>,
   <<"a", ".", "p", "c", "x">>}

Renamed == {[f EXCEPT !.name = name] : f \in Samples, name \in OtherNames}

\* Every generated file, whole.
Generated == BmpFiles \cup GifFiles \cup PcxFiles \cup PngFiles \cup JpegFiles \cup TiffFiles

\* The files a request of several files draws from.
Uploads ==
  Samples \cup {File(<<"a", ".", "w", "e", "b", "p">>, <<82, 73, 70, 70>>, "WEBP", TRUE),
                File(<<"a", ".", "j", "p", "g">>, <<255, 216, 255>>, "JPEG", TRUE)}

\* ------------------------------------------------------- the POST handler

VARIABLES
  phase,     \* "received", "running" (Promise.all pending), "responded"
  files,     \* formData.getAll('files')
  task,      \* per file: "pending", "reading", "parsing", "parsed", "settled"
  meta,      \* per file: what its parseImageMetadata promise settled with
  results,   \* the slots of Promise.all
  response,  \* the response sent
  cur,       \* the file whose parseImageMetadata call is on the stack, or 0
  d,         \* the locals of that call (kept after it ends, until the next)
  ioFailed,  \* history: the files whose arrayBuffer() rejected
  order      \* history: the files in the order their callbacks returned

vars == <<phase, files, task, meta, results, response, cur, d, ioFailed, order>>

NoResponse == [status |-> 0]

InitWith(fs) ==
  /\ phase = "received"
  /\ files = fs
  /\ task = [i \in 1..Len(fs) |-> "pending"]
  /\ meta = [i \in 1..Len(fs) |-> NoRecord]
  /\ results = [i \in 1..Len(fs) |-> NoRecord]
  /\ response = NoResponse
  /\ cur = 0
  /\ d = NoCall
  /\ ioFailed = {}
  /\ order = <<>>

\* A request of no file or of one file: a generated file cut at any length,
\* or a sample under another name.
Init ==
  \/ InitWith(<<>>)
  \/ \E f \in Generated : \E k \in 0..Len(f.bytes) : InitWith(<<Truncated(f, k)>>)
  \/ \E f \in Renamed : InitWith(<<f>>)

\* A request of up to MaxFiles files, drawn from Uploads.
InitPost == \E fs \in SeqsUpTo(Uploads, MaxFiles) : InitWith(fs)

\* Lines 8-9 and 44-49: request.formData() rejects.
FormDataFails ==
  /\ phase = "received"
  /\ phase' = "responded"
  /\ response' = [status |-> 500, error |-> <<"Failed to process images">>]
  /\ UNCHANGED <<files, task, meta, results, cur, d, ioFailed, order>>

\* Lines 12-17.
NoFiles ==
  /\ phase = "received"
  /\ Len(files) = 0
  /\ phase' = "responded"
  /\ response' = [status |-> 400, error |-> <<"No files provided">>]
  /\ UNCHANGED <<files, task, meta, results, cur, d, ioFailed, order>>

\* Lines 19-22: files.map runs every callback up to its first await, so every
\* file's arrayBuffer() is pending before any of them settles.
StartAll ==
  /\ phase = "received"
  /\ Len(files) >= 1
  /\ phase' = "running"
  /\ task' = [i \in 1..Len(files) |-> "reading"]
  /\ UNCHANGED <<files, meta, results, response, cur, d, ioFailed, order>>

\* SlotOf that fills the slots in the order the callbacks finish.
SlotOfCompletion(i, tasks) ==
  1 + Cardinality({j \in 1..Len(tasks) : tasks[j] = "settled"})

\* The slot of Promise.all that the promise of the i-th callback fills.
SlotOf(i, tasks) == i

\* Lines 22, 26-38: arrayBuffer() of file i rejects; the callback's catch
\* block returns the handler's own error record.
ArrayBufferRejects(i) ==
  /\ phase = "running"
  /\ task[i] = "reading"
  /\ cur = 0
  /\ task' = [task EXCEPT ![i] = "settled"]
  /\ results' = [results EXCEPT ![SlotOf(i, task)] =
                   RouteErrorRecord(files[i].name, <<"read failed">>)]
  /\ ioFailed' = ioFailed \cup {i}
  /\ order' = Append(order, i)
  /\ UNCHANGED <<phase, files, meta, response, cur, d>>

\* Lines 22-24: arrayBuffer() of file i resolves and the callback calls
\* parseImageMetadata, which runs until it returns its promise.
CallParse(i) ==
  /\ phase = "running"
  /\ task[i] = "reading"
  /\ cur = 0
  /\ task' = [task EXCEPT ![i] = "parsing"]
  /\ cur' = i
  /\ d' = BeginParse(files[i].name)
  /\ UNCHANGED <<phase, files, meta, results, response, ioFailed, order>>

\* The running call is at program position pc.
Running(pc) == cur # 0 /\ d.pc = pc

\* The steps of the running call; nothing else runs until it ends.
DoDispatch ==
  /\ Running("dispatch")
  /\ d' = Dispatch(d)
  /\ UNCHANGED <<phase, files, task, meta, results, response, cur, ioFailed, order>>

DoParseBMP ==
  /\ Running("bmp")
  /\ d' = ParseBMP(d, files[cur].bytes, files[cur].name)
  /\ UNCHANGED <<phase, files, task, meta, results, response, cur, ioFailed, order>>

DoParsePNG ==
  /\ Running("png")
  /\ d' = ParsePNG(d, files[cur].bytes, files[cur].name)
  /\ UNCHANGED <<phase, files, task, meta, results, response, cur, ioFailed, order>>

DoPngScan ==
  /\ Running("png_scan")
  /\ d' = PngScan(d, files[cur].bytes, files[cur].name)
  /\ UNCHANGED <<phase, files, task, meta, results, response, cur, ioFailed, order>>

DoParseJPEG ==
  /\ Running("jpeg")
  /\ d' = ParseJPEG(d, files[cur].bytes, files[cur].name)
  /\ UNCHANGED <<phase, files, task, meta, results, response, cur, ioFailed, order>>

DoJpegScan ==
  /\ Running("jpeg_scan")
  /\ d' = JpegScan(d, files[cur].bytes, files[cur].name)
  /\ UNCHANGED <<phase, files, task, meta, results, response, cur, ioFailed, order>>

DoParseGIF ==
  /\ Running("gif")
  /\ d' = ParseGIF(d, files[cur].bytes, files[cur].name)
  /\ UNCHANGED <<phase, files, task, meta, results, response, cur, ioFailed, order>>

DoParseTIFF ==
  /\ Running("tiff")
  /\ d' = ParseTIFF(d, files[cur].bytes, files[cur].name)
  /\ UNCHANGED <<phase, files, task, meta, results, response, cur, ioFailed, order>>

DoTiffIfd ==
  /\ Running("tiff_ifd")
  /\ d' = TiffIfd(d, files[cur].bytes, files[cur].name)
  /\ UNCHANGED <<phase, files, task, meta, results, response, cur, ioFailed, order>>

DoParsePCX ==
  /\ Running("pcx")
  /\ d' = ParsePCX(d, files[cur].bytes, files[cur].name)
  /\ UNCHANGED <<phase, files, task, meta, results, response, cur, ioFailed, order>>

\* The call ends: its promise settles and the stack is free again.
EndCall ==
  /\ cur # 0
  /\ d.pc \in {"returned", "thrown"}
  /\ d' = Settle(d, files[cur].name)
  /\ meta' = [meta EXCEPT ![cur] = [status |-> d'.pc, rec |-> d'.rec, err |-> d'.err]]
  /\ task' = [task EXCEPT ![cur] = "parsed"]
  /\ cur' = 0
  /\ UNCHANGED <<phase, files, results, response, ioFailed, order>>

\* Lines 24-38: what the callback returns once the awaited promise settled.
CallbackResult(file, m) ==
  IF m.status = "resolved" THEN m.rec ELSE RouteErrorRecord(file.name, m.err)

\* The callback of file i resumes after its await and returns.
ReturnMetadata(i) ==
  /\ phase = "running"
  /\ task[i] = "parsed"
  /\ cur = 0
  /\ task' = [task EXCEPT ![i] = "settled"]
  /\ results' = [results EXCEPT ![SlotOf(i, task)] = CallbackResult(files[i], meta[i])]
  /\ order' = Append(order, i)
  /\ UNCHANGED <<phase, files, meta, response, cur, d, ioFailed>>

\* Line 43: every promise is settled, Promise.all resolves.
Respond ==
  /\ phase = "running"
  /\ \A i \in 1..Len(files) : task[i] = "settled"
  /\ phase' = "responded"
  /\ response' = [status |-> 200, results |-> results]
  /\ UNCHANGED <<files, task, meta, results, cur, d, ioFailed, order>>

Next ==
  \/ FormDataFails
  \/ NoFiles
  \/ StartAll
  \/ \E i \in 1..Len(files) : ArrayBufferRejects(i)
  \/ \E i \in 1..Len(files) : CallParse(i)
  \/ DoDispatch
  \/ DoParseBMP
  \/ DoParsePNG
  \/ DoPngScan
  \/ DoParseJPEG
  \/ DoJpegScan
  \/ DoParseGIF
  \/ DoParseTIFF
  \/ DoTiffIfd
  \/ DoParsePCX
  \/ EndCall
  \/ \E i \in 1..Len(files) : ReturnMetadata(i)
  \/ Respond

Spec == Init /\ [][Next]_vars

PostSpec == InitPost /\ [][Next]_vars

\* ------------------------------------------------------------- the claims

NumericFields == {"width", "height", "resolutionX", "resolutionY", "colorDepth"}
DecoderFields == NumericFields \cup {"filename", "compression", "format"}

IsErrorRecord(rec) == "error" \in DOMAIN rec
AllZero(rec) == \A f \in NumericFields : rec[f] = Num(0)

\* The files whose parseImageMetadata call has ended.
Parsed == {i \in 1..Len(files) : task[i] \in {"parsed", "settled"} /\ i \notin ioFailed}

\* C1: whatever the bytes and the filename, the call ends with its promise
\* resolved with a record; nothing a decoder or the dispatcher throws escapes
\* it as a rejection.
C1_AlwaysResolves ==
  /\ d.pc # "rejected"
  /\ d.pc = "resolved" => DecoderFields \subseteq DOMAIN d.rec
  /\ \A i \in Parsed : meta[i].status = "resolved"

\* A checked read past the end was caught and became an error record.
C1_Witness ==
  d.pc = "resolved" /\ d.err = OutOfRange /\ IsErrorRecord(d.rec)

\* C2: a record has an error field exactly when the extension was unsupported
\* or the decoder threw; with an error field every numeric field is 0 and
\* the compression is "N/A"; without one it is the decoder's own record.
C2_TwoShapes ==
  d.pc = "resolved" =>
    /\ IsErrorRecord(d.rec) <=> d.err # <<>>
    /\ DecoderOf(d.ext) = "none" => IsErrorRecord(d.rec)
    /\ IsErrorRecord(d.rec) =>
         /\ AllZero(d.rec)
         /\ d.rec.compression = <<"N/A">>
         /\ DOMAIN d.rec = DecoderFields \cup {"error"}
    /\ ~IsErrorRecord(d.rec) => DOMAIN d.rec = DecoderFields

\* An unsupported extension ended in an error record.
C2_Witness ==
  d.pc = "resolved" /\ DecoderOf(d.ext) = "none" /\ IsErrorRecord(d.rec) /\ AllZero(d.rec)

\* What the callback of file i returns, from that file alone.
ExpectedRecord(i) ==
  IF i \in ioFailed THEN RouteErrorRecord(files[i].name, <<"read failed">>)
  ELSE ParseImageMetadata(files[i].bytes, files[i].name).rec

\* C3: once the form data of a request of N >= 1 files is read, the handler
\* answers 200 with N records, the i-th being the record of the i-th file
\* alone, in whatever order the reads and the decodes finished; no batch
\* error is sent while or after the files are processed.
C3_OneRecordPerFile ==
  /\ phase = "running" => response = NoResponse
  /\ (phase = "responded" /\ Len(files) >= 1 /\ \A i \in 1..Len(files) : task[i] # "pending")
       => /\ response.status = 200
          /\ Len(response.results) = Len(files)
          /\ \A i \in 1..Len(files) :
               /\ response.results[i].filename = files[i].name
               /\ response.results[i] = ExpectedRecord(i)

\* Two files: the second was decoded and its callback returned first, then
\* the read of the first failed.
C3_Witness ==
  /\ phase = "responded" /\ Len(files) = 2 /\ ioFailed = {1} /\ order = <<2, 1>>
  /\ response.status = 200
  /\ ~IsErrorRecord(response.results[2])
  /\ files[1].name # files[2].name

\* C4: every record's width and height are non-negative integers.
C4_NonNegativeSize ==
  d.pc = "resolved" => IsNonNegInt(d.rec.width) /\ IsNonNegInt(d.rec.height)

\* C5: a call in which some read needed a byte at or past the end of the
\* buffer ends in an error record.
C5_MissingByteFails ==
  (d.pc = "resolved" /\ d.oob) => IsErrorRecord(d.rec)

\* The least number of bytes each decoder reads before it can return: the
\* end of its last unconditional read.
BmpMinHeader == 34
PngMinHeader == 27
JpegMinHeader == 2
GifMinHeader == 11
TiffMinHeader == 8
PcxMinHeader == 66

MinHeader(decoder) ==
  CASE decoder = "bmp" -> BmpMinHeader
    [] decoder = "png" -> PngMinHeader
    [] decoder = "jpeg" -> JpegMinHeader
    [] decoder = "gif" -> GifMinHeader
    [] decoder = "tiff" -> TiffMinHeader
    [] decoder = "pcx" -> PcxMinHeader

TooShort(file) ==
  /\ DecoderOf(Extension(file.name)) # "none"
  /\ Len(file.bytes) < MinHeader(DecoderOf(Extension(file.name)))

\* C6: a buffer shorter than the minimum header of the format its extension
\* selects yields an error record with every numeric field 0.
C6_ShortHeaderFails ==
  \A i \in Parsed :
    TooShort(files[i]) => IsErrorRecord(meta[i].rec) /\ AllZero(meta[i].rec)

\* A PCX buffer one byte short of the plane count was decoded to an error.
C6_Witness ==
  \E i \in Parsed :
    /\ files[i].kind = "PCX" /\ Len(files[i].bytes) = PcxMinHeader - 1
    /\ TooShort(files[i]) /\ IsErrorRecord(meta[i].rec)

\* C7: the scans end: a call never begins more iterations than the buffer
\* has bytes, the TIFF loop never more than the entry count the buffer
\* states, and until its promise settles the call always has a next step.
C7_ScansEnd ==
  cur # 0 =>
    /\ d.iters <= Len(files[cur].bytes)
    /\ d.pc \in {"tiff_ifd", "returned", "thrown"} /\ DecoderOf(d.ext) = "tiff"
         => d.iters <= d.numEntries
    /\ d.pc \in {"png_scan"} => d.offset >= 8 + 12 * d.iters
    /\ d.pc \in {"jpeg_scan"} => d.offset >= 2 + 2 * d.iters
    /\ ENABLED (DoDispatch \/ DoParseBMP \/ DoParsePNG \/ DoPngScan \/ DoParseJPEG
                  \/ DoJpegScan \/ DoParseGIF \/ DoParseTIFF \/ DoTiffIfd \/ DoParsePCX
                  \/ EndCall)

\* A JPEG scan went on after a segment that stated a length below 2, and ended.
C7_Witness ==
  d.pc = "resolved" /\ d.badLen /\ d.iters >= 2 /\ ~IsErrorRecord(d.rec)

\* C8: a JPEG scan that reads a segment length below 2 ends in an error record.
C8_BadLengthFails ==
  (d.pc = "resolved" /\ d.badLen) => IsErrorRecord(d.rec)

\* C9: a successfully decoded file that carries no resolution value has
\* resolutionX = resolutionY = 72.
C9_DefaultResolution ==
  \A i \in Parsed :
    (files[i].noRes /\ ~IsErrorRecord(meta[i].rec))
      => meta[i].rec.resolutionX = Num(72) /\ meta[i].rec.resolutionY = Num(72)

Leaving(decoder) ==
  cur # 0 /\ DecoderOf(d.ext) = decoder /\ d.pc \in {"returned", "thrown"}

SofMarkers == (192..207) \ {196, 200, 204}

\* The buffer begins with the SOI marker and holds no SOF marker byte at all.
SoiWithoutSof(buf) ==
  /\ Len(buf) >= 2 /\ buf[1] = 255 /\ buf[2] = 216
  /\ \A k \in 1..Len(buf) : buf[k] \notin SofMarkers

\* C11: a JPEG buffer that begins with FF D8 and in which the scan reads no
\* SOF segment, cut wherever it may be, is decoded without error to
\* colorDepth 24 and width = height = 0.
C11_NoSofFallback ==
  (Leaving("jpeg") /\ SoiWithoutSof(files[cur].bytes) /\ d.sofs = <<>>) =>
    /\ d.pc = "returned"
    /\ d.rec.colorDepth = Num(24)
    /\ d.rec.width = Num(0) /\ d.rec.height = Num(0)

\* The signature, and the 25 bytes of the IHDR chunk after it.
PngIhdrEnd == PngAdvance(8, 13)

CompleteIhdr(buf) == Len(buf) >= PngIhdrEnd /\ Subarray(buf, 0, 8) = PngSignature

\* C12: after a valid signature and a complete IHDR the pHYs scan asks for
\* no byte past the end of the buffer, whatever chunks follow and wherever
\* the buffer is cut, and the decoder returns its record.
C12_ScanStopsAtEnd ==
  (Leaving("png") /\ CompleteIhdr(files[cur].bytes)) =>
    d.pc = "returned" /\ ~d.oob

\* The table of the claim: the decoder, by its format tag, of each extension.
TagOf(ext) ==
  CASE ext = <<"b", "m", "p">> -> <<"B", "M", "P">>
    [] ext = <<"p", "n", "g">> -> <<"P", "N", "G">>
    [] ext \in {<<"j", "p", "g">>, <<"j", "p", "e", "g">>} -> <<"J", "P", "E", "G">>
    [] ext = <<"g", "i", "f">> -> <<"G", "I", "F">>
    [] ext \in {<<"t", "i", "f">>, <<"t", "i", "f", "f">>} -> <<"T", "I", "F", "F">>
    [] ext = <<"p", "c", "x">> -> <<"P", "C", "X">>
    [] OTHER -> <<>>

\* What a decoder says when it rejects the signature.
InvalidSignature(tag) ==
  CASE tag = <<"B", "M", "P">> -> <<"Not a valid BMP file">>
    [] tag = <<"P", "N", "G">> -> <<"Not a valid PNG file">>
    [] tag = <<"J", "P", "E", "G">> -> <<"Not a valid JPEG file">>
    [] tag = <<"G", "I", "F">> -> <<"Not a valid GIF file">>
    [] tag = <<"T", "I", "F", "F">> -> <<"Not a valid TIFF file">>
    [] tag = <<"P", "C", "X">> -> <<"Not a valid PCX file">>

\* The text after the last dot of the name (the whole name if it has none),
\* in lower case.
LowerCaseExtension(filename) == ToLowerCase(SplitPop(filename))

\* C13: the lowercased extension of the filename alone selects the decoder,
\* by the table bmp, png, jpg/jpeg, gif, tif/tiff, pcx: a success record has
\* the format tag of that decoder and a failure is that decoder's own; any
\* other extension runs no decoder and yields an error record whose format
\* is the extension in upper case and whose numeric fields are 0.
C13_DispatchByExtension ==
  \A i \in Parsed :
    LET ext == LowerCaseExtension(files[i].name)
        rec == meta[i].rec
    IN /\ meta[i].status = "resolved"
       /\ TagOf(ext) # <<>> =>
            IF IsErrorRecord(rec)
            THEN rec.error \in {InvalidSignature(TagOf(ext)), OutOfRange}
            ELSE rec.format = TagOf(ext)
       /\ TagOf(ext) = <<>> =>
            /\ IsErrorRecord(rec)
            /\ rec.error = <<"Unsupported format", ext>>
            /\ rec.format = ToUpperCase(ext)
            /\ AllZero(rec)

\* PNG bytes under the name A.PNG were decoded by the PNG decoder.
C13_Witness ==
  \E i \in Parsed :
    /\ files[i].name = <<"A", ".", "P", "N", "G">> /\ files[i].kind = "PNG"
    /\ ~IsErrorRecord(meta[i].rec) /\ meta[i].rec.format = <<"P", "N", "G">>

\* C14: every record's resolutionX and resolutionY are non-negative
\* integers, whatever densities and rationals the file states: a zero
\* density or a zero denominator yields no other kind of value.
C14_ResolutionIsNatural ==
  d.pc = "resolved" => IsNonNegInt(d.rec.resolutionX) /\ IsNonNegInt(d.rec.resolutionY)

\* The IFD of a buffer as the format lays it out: the entries that carry a
\* tag, and the fields of an entry.
IfdEntry(buf, k) == TiffUInt32(buf[1] = 73, buf, 4) + 2 + 12 * k
IfdEntries(buf, tag) ==
  {k \in 0..(TiffUInt16(buf[1] = 73, buf, TiffUInt32(buf[1] = 73, buf, 4)) - 1) :
     TiffUInt16(buf[1] = 73, buf, IfdEntry(buf, k)) = tag}
TheEntry(buf, tag) == CHOOSE k \in IfdEntries(buf, tag) : TRUE
StatedUnit(buf) ==
  IF IfdEntries(buf, 296) = {} THEN 2
  ELSE TiffUInt16(buf[1] = 73, buf, IfdEntry(buf, TheEntry(buf, 296)) + 8)
Numerator(buf, tag) ==
  TiffUInt32(buf[1] = 73, buf,
             TiffUInt32(buf[1] = 73, buf, IfdEntry(buf, TheEntry(buf, tag)) + 8))
Denominator(buf, tag) ==
  TiffUInt32(buf[1] = 73, buf,
             TiffUInt32(buf[1] = 73, buf, IfdEntry(buf, TheEntry(buf, tag)) + 8) + 4)

\* round(round(n/d) x 2.54) under unit 3, round(n/d) otherwise.
StatedDpi(buf, tag) ==
  IF StatedUnit(buf) = 3
  THEN RoundDiv(RoundDiv(Numerator(buf, tag), Denominator(buf, tag)) * 254, 100)
  ELSE RoundDiv(Numerator(buf, tag), Denominator(buf, tag))

\* The IFD holds one entry of the tag, at most one unit entry, of value 2 or
\* 3, and the rational of the tag has a denominator.
OneRational(buf, tag) ==
  /\ Cardinality(IfdEntries(buf, tag)) = 1
  /\ Cardinality(IfdEntries(buf, 296)) <= 1
  /\ StatedUnit(buf) \in {2, 3}
  /\ Denominator(buf, tag) # 0

\* C15: the centimeter conversion is applied once, after the whole IFD: with
\* a unit entry of value 3 a resolution entry n/d yields
\* round(round(n/d) x 2.54), whether the unit entry stands before or after
\* it, and with unit 2 or no unit entry it yields round(n/d).
C15_CentimetersAfterLoop ==
  (Leaving("tiff") /\ d.pc = "returned") =>
    /\ OneRational(files[cur].bytes, 282)
         => d.rec.resolutionX = Num(StatedDpi(files[cur].bytes, 282))
    /\ OneRational(files[cur].bytes, 283)
         => d.rec.resolutionY = Num(StatedDpi(files[cur].bytes, 283))

\* A big-endian IFD whose unit entry, of value 3, stands before its
\* XResolution entry of 100/1 was decoded to 254.
C15_Witness ==
  /\ Leaving("tiff") /\ d.pc = "returned" /\ ~d.littleEndian
  /\ OneRational(files[cur].bytes, 282)
  /\ IfdEntries(files[cur].bytes, 296) = {0} /\ StatedUnit(files[cur].bytes) = 3
  /\ Numerator(files[cur].bytes, 282) = 100 /\ Denominator(files[cur].bytes, 282) = 1
  /\ d.rec.resolutionX = Num(254)

\* The fields of ImageMetadata that are not optional.
RequiredFields ==
  {"filename", "width", "height", "resolutionX", "resolutionY", "colorDepth",
   "compression", "compressed", "format"}

\* C16: every record the call resolves with, success or error, has a value
\* for every required field of ImageMetadata, so that no consumer of the
\* record reads an undefined field.
C16_FullyPopulated ==
  d.pc = "resolved" => RequiredFields \subseteq DOMAIN d.rec

====
